---- MODULE Spec2Model ----
(***************************************************************************)
(* Signal-driven schema approval workflow                                  *)
(* (schema_approval/workflow.py, class SchemaApprovalWorkflow).            *)
(*                                                                         *)
(* The workflow is a single cooperative coroutine: the run loop only       *)
(* yields at `await` points (activity calls and wait_condition), and the   *)
(* signal handlers submit_schema / record_review_decision execute          *)
(* atomically between two yields.  Every action below is one such atomic   *)
(* segment; pc names the await the run loop is suspended on.               *)
(***************************************************************************)
EXTENDS Naturals, Integers, Sequences, FiniteSets, TLC

(***************************************************************************)
(* Bounds of the model.                                                    *)
(***************************************************************************)
MaxVersion == 3      \* submission versions are drawn from 1..MaxVersion
MaxUnsolicited == 1  \* signals other than a first answer to an open request
MaxAttempts == 2     \* iterations the run loop may start
MaxRounds == 2       \* review rounds of a plan (plan-driven variant)
MaxApprovals == 3    \* outcomes handed to complete_review in a direct call

(***************************************************************************)
(* Optional[T]: None is the empty sequence, a value x is <<x>>.            *)
(***************************************************************************)
None == <<>>
Some(x) == <<x>>
Get(o) == o[1]

(***************************************************************************)
(* Input alphabets.                                                        *)
(***************************************************************************)
_VALID_STAGES == {"Review1.a", "Review1.b", "Review2", "Review3"}
UnknownStage == "Review4"
SignalStages == _VALID_STAGES \cup {UnknownStage}
Versions == 1..MaxVersion

\* SchemaSubmission: the workflow reads no field but version
SchemaSubmission == [version : Versions]

\* (reviewer, approved, requires_additional_review) of the decisions sent:
\* an approval asking for the follow-up, an approval waiving it, a rejection;
\* the two approvals come from different reviewers
Payloads ==
    {<<"alice", TRUE, TRUE>>, <<"bob", TRUE, FALSE>>, <<"alice", FALSE, FALSE>>}

\* ReviewDecision as sent by reviewers, for any stage name and version
ReviewDecision ==
    {[stage |-> st, reviewer |-> p[1], submission_version |-> v,
      approved |-> p[2], requires_additional_review |-> p[3]] :
        st \in SignalStages, v \in Versions, p \in Payloads}

\* config: SchemaApprovalWorkflowInput; run rejects a reviewer list whose
\* length is not 2.
SchemaApprovalWorkflowInput ==
    [initial_submission : [version : {1}],
     stage_one_reviewers : {<<"alice", "bob">>, <<"alice">>}]

VARIABLES
    config,                 \* argument of run
    current_submission,     \* Optional[SchemaSubmission]
    pending_submission,     \* Optional[SchemaSubmission]
    decisions,              \* Dict[stage, ReviewDecision]   (pending)
    completed_decisions,    \* Dict[stage, ReviewDecision]
    awaiting_resubmission,
    attempts,
    history,                \* list of entries
    current_round_name,     \* Optional[<<round, version>>]
    expected_stages,        \* tuple of stage names
    pc,                     \* await the run loop is suspended on
    round_two_decision,     \* local of run, Optional
    round_three_decision,   \* local of run, Optional
    result,                 \* SchemaApprovalResult built by run, Optional
    activity,               \* activity calls in flight (sequence)
    nsignals,               \* unsolicited signals delivered so far
    \* the plan-driven variant of the workflow
    rounds,                 \* SchemaApprovalInput.rounds
    iteration,              \* number of the iteration being executed
    plan_submission,        \* Optional[SchemaSubmission] of the iteration
    outcomes,               \* Dict[stage, ReviewOutcome] of the iteration
    iteration_history,      \* list of ReviewIterationResult
    final_report,           \* Optional[CompletionReport]
    plan_pc,                \* activity the plan-driven run awaits
    plan_error,             \* Optional error the plan-driven run ended with
    \* an activity function called on its own
    call,                   \* the activity and its request
    returned                \* Optional: what the call returned or raised

signalVars == <<config, current_submission, pending_submission, decisions,
                completed_decisions, awaiting_resubmission, attempts, history,
                current_round_name, expected_stages, pc, round_two_decision,
                round_three_decision, result, activity, nsignals>>
planVars == <<rounds, iteration, plan_submission, outcomes, iteration_history,
              final_report, plan_pc, plan_error>>
callVars == <<call, returned>>
otherVars == <<planVars, callVars>>

vars == <<signalVars, planVars, callVars>>

ledger == <<decisions, completed_decisions>>
runLocals == <<round_two_decision, round_three_decision, result>>
roundVars == <<current_round_name, expected_stages>>

(***************************************************************************)
(* History entries: the f-strings of the source, kept as (kind, stage,     *)
(* version, current version) so that two entries are equal iff the         *)
(* formatted strings are.                                                  *)
(***************************************************************************)
Entry(kind, stage, v, w) == [kind |-> kind, stage |-> stage, version |-> v, current |-> w]

(***************************************************************************)
(* Dict helpers.                                                           *)
(***************************************************************************)
EmptyDict == [s \in {} |-> None]
DictSet(d, k, v) == [s \in (DOMAIN d) \cup {k} |-> IF s = k THEN v ELSE d[s]]
DictDrop(d, ks) == [s \in (DOMAIN d) \ ks |-> d[s]]
Range(seq) == {seq[i] : i \in 1..Len(seq)}

ActivityCall(name, stage, v) == [name |-> name, stage |-> stage, version |-> v]

\* the plan-driven run was not started
PlanIdle ==
    /\ rounds = <<>>
    /\ iteration = 0
    /\ plan_submission = None
    /\ outcomes = EmptyDict
    /\ iteration_history = <<>>
    /\ final_report = None
    /\ plan_pc = "idle"
    /\ plan_error = None

\* no activity is called on its own
CallIdle == call = None /\ returned = None

Init ==
    /\ PlanIdle
    /\ CallIdle
    /\ config \in SchemaApprovalWorkflowInput
    /\ current_submission = None
    /\ pending_submission = None
    /\ decisions = EmptyDict
    /\ completed_decisions = EmptyDict
    /\ awaiting_resubmission = FALSE
    /\ attempts = 0
    /\ history = <<>>
    /\ current_round_name = None
    /\ expected_stages = <<>>
    /\ pc = "start"
    /\ round_two_decision = None
    /\ round_three_decision = None
    /\ result = None
    /\ activity = <<>>
    /\ nsignals = 0

(***************************************************************************)
(* Signal handlers.                                                        *)
(***************************************************************************)
\* submit_schema comparing with < : a candidate of the active version passes
submit_schema_strict(submission) ==
    /\ IF current_submission # None
          /\ submission.version < Get(current_submission).version
       THEN /\ history' = Append(history,
                    Entry("IgnoredOutdatedSubmission", "", submission.version,
                          Get(current_submission).version))
            /\ UNCHANGED pending_submission
       ELSE /\ pending_submission' = Some(submission)
            /\ UNCHANGED history
    /\ UNCHANGED <<otherVars, config, current_submission, ledger, awaiting_resubmission,
                   attempts, roundVars, pc, runLocals, activity>>

\* submit_schema without the early return: an outdated candidate is logged
\* and still becomes the pending submission
submit_schema_noreturn(submission) ==
    /\ IF current_submission # None
          /\ submission.version <= Get(current_submission).version
       THEN history' = Append(history,
                    Entry("IgnoredOutdatedSubmission", "", submission.version,
                          Get(current_submission).version))
       ELSE UNCHANGED history
    /\ pending_submission' = Some(submission)
    /\ UNCHANGED <<otherVars, config, current_submission, ledger, awaiting_resubmission,
                   attempts, roundVars, pc, runLocals, activity>>

\* submit_schema making an accepted candidate the active submission at once
submit_schema_install(submission) ==
    /\ IF current_submission # None
          /\ submission.version <= Get(current_submission).version
       THEN /\ history' = Append(history,
                    Entry("IgnoredOutdatedSubmission", "", submission.version,
                          Get(current_submission).version))
            /\ UNCHANGED <<pending_submission, current_submission>>
       ELSE /\ pending_submission' = Some(submission)
            /\ current_submission' = Some(submission)
            /\ UNCHANGED history
    /\ UNCHANGED <<otherVars, config, ledger, awaiting_resubmission,
                   attempts, roundVars, pc, runLocals, activity>>

submit_schema(submission) ==
    /\ IF current_submission # None
          /\ submission.version <= Get(current_submission).version
       THEN /\ history' = Append(history,
                    Entry("IgnoredOutdatedSubmission", "", submission.version,
                          Get(current_submission).version))
            /\ UNCHANGED pending_submission
       ELSE /\ pending_submission' = Some(submission)
            /\ UNCHANGED history
    /\ UNCHANGED <<otherVars, config, current_submission, ledger, awaiting_resubmission,
                   attempts, roundVars, pc, runLocals, activity>>

\* record_review_decision taking a decision only for a stage of the open
\* round: expected_stages tested in place of _VALID_STAGES
record_review_decision_expected(decision) ==
    /\ IF current_submission = None
       THEN UNCHANGED <<decisions, history>>
       ELSE IF decision.submission_version # Get(current_submission).version
       THEN /\ history' = Append(history,
                    Entry("IgnoredDecisionVersion", "", decision.submission_version,
                          Get(current_submission).version))
            /\ UNCHANGED decisions
       ELSE IF decision.stage \notin Range(expected_stages)
       THEN /\ history' = Append(history,
                    Entry("IgnoredDecisionStage", decision.stage, 0, 0))
            /\ UNCHANGED decisions
       ELSE /\ decisions' = DictSet(decisions, decision.stage, decision)
            /\ history' = Append(history,
                    Entry("RecordedDecision", decision.stage,
                          decision.submission_version, 0))
    /\ UNCHANGED <<otherVars, config, current_submission, pending_submission,
                   completed_decisions, awaiting_resubmission, attempts,
                   roundVars, pc, runLocals, activity>>

\* record_review_decision in which a disapproval withdraws the decision
\* pending for its stage instead of replacing it
record_review_decision_withdraw(decision) ==
    /\ IF current_submission = None
       THEN UNCHANGED <<decisions, history>>
       ELSE IF decision.submission_version # Get(current_submission).version
       THEN /\ history' = Append(history,
                    Entry("IgnoredDecisionVersion", "", decision.submission_version,
                          Get(current_submission).version))
            /\ UNCHANGED decisions
       ELSE IF decision.stage \notin _VALID_STAGES
       THEN /\ history' = Append(history,
                    Entry("IgnoredDecisionStage", decision.stage, 0, 0))
            /\ UNCHANGED decisions
       ELSE /\ decisions' =
                  IF decision.stage \in DOMAIN decisions /\ ~ decision.approved
                  THEN DictDrop(decisions, {decision.stage})
                  ELSE DictSet(decisions, decision.stage, decision)
            /\ history' = Append(history,
                    Entry("RecordedDecision", decision.stage,
                          decision.submission_version, 0))
    /\ UNCHANGED <<otherVars, config, current_submission, pending_submission,
                   completed_decisions, awaiting_resubmission, attempts,
                   roundVars, pc, runLocals, activity>>

\* record_review_decision without the _VALID_STAGES test
record_review_decision_anystage(decision) ==
    /\ IF current_submission = None
       THEN UNCHANGED <<decisions, history>>
       ELSE IF decision.submission_version # Get(current_submission).version
       THEN /\ history' = Append(history,
                    Entry("IgnoredDecisionVersion", "", decision.submission_version,
                          Get(current_submission).version))
            /\ UNCHANGED decisions
       ELSE /\ decisions' = DictSet(decisions, decision.stage, decision)
            /\ history' = Append(history,
                    Entry("RecordedDecision", decision.stage,
                          decision.submission_version, 0))
    /\ UNCHANGED <<otherVars, config, current_submission, pending_submission,
                   completed_decisions, awaiting_resubmission, attempts,
                   roundVars, pc, runLocals, activity>>

\* record_review_decision without the version test
record_review_decision_anyversion(decision) ==
    /\ IF current_submission = None
       THEN UNCHANGED <<decisions, history>>
       ELSE IF decision.stage \notin _VALID_STAGES
       THEN /\ history' = Append(history,
                    Entry("IgnoredDecisionStage", decision.stage, 0, 0))
            /\ UNCHANGED decisions
       ELSE /\ decisions' = DictSet(decisions, decision.stage, decision)
            /\ history' = Append(history,
                    Entry("RecordedDecision", decision.stage,
                          decision.submission_version, 0))
    /\ UNCHANGED <<otherVars, config, current_submission, pending_submission,
                   completed_decisions, awaiting_resubmission, attempts,
                   roundVars, pc, runLocals, activity>>

record_review_decision(decision) ==
    /\ IF current_submission = None
       THEN UNCHANGED <<decisions, history>>
       ELSE IF decision.submission_version # Get(current_submission).version
       THEN /\ history' = Append(history,
                    Entry("IgnoredDecisionVersion", "", decision.submission_version,
                          Get(current_submission).version))
            /\ UNCHANGED decisions
       ELSE IF decision.stage \notin _VALID_STAGES
       THEN /\ history' = Append(history,
                    Entry("IgnoredDecisionStage", decision.stage, 0, 0))
            /\ UNCHANGED decisions
       ELSE /\ decisions' = DictSet(decisions, decision.stage, decision)
            /\ history' = Append(history,
                    Entry("RecordedDecision", decision.stage,
                          decision.submission_version, 0))
    /\ UNCHANGED <<otherVars, config, current_submission, pending_submission,
                   completed_decisions, awaiting_resubmission, attempts,
                   roundVars, pc, runLocals, activity>>

(***************************************************************************)
(* The run loop.                                                           *)
(***************************************************************************)
\* _round_one_approved with `or` between the two reviewers
_round_one_approved_either(completed) ==
    /\ "Review1.a" \in DOMAIN completed
    /\ "Review1.b" \in DOMAIN completed
    /\ completed["Review1.a"].approved \/ completed["Review1.b"].approved

_round_one_approved(completed) ==
    /\ "Review1.a" \in DOMAIN completed
    /\ completed["Review1.a"].approved
    /\ "Review1.b" \in DOMAIN completed
    /\ completed["Review1.b"].approved

\* the wait_condition waiting for a decision of every known stage
StagesRecorded_all(stages) == _VALID_STAGES \subseteq DOMAIN decisions

\* wait_condition of _wait_for_stages
StagesRecorded(stages) == \A i \in 1..Len(stages) : stages[i] \in DOMAIN decisions

\* the pop loop reading with [] instead of pop: the decisions stay pending
PoppedDecisions_keep(stages) == decisions

\* the pop loop of _wait_for_stages: the dicts after moving `stages`
PoppedDecisions(stages) == DictDrop(decisions, Range(stages))
CompletedAfter(stages) ==
    [s \in (DOMAIN completed_decisions) \cup Range(stages) |->
        IF s \in Range(stages) THEN decisions[s] ELSE completed_decisions[s]]

\* the while loop entering Round 1 without awaiting the upload
StartAttempt_noupload(submission) ==
    /\ attempts' = attempts + 1
    /\ activity' = <<ActivityCall("upload_schema", "", submission.version)>>
    /\ pc' = "dispatch1"

\* top of the while loop up to the await of upload_schema
StartAttempt(submission) ==
    /\ attempts' = attempts + 1
    /\ activity' = <<ActivityCall("upload_schema", "", submission.version)>>
    /\ pc' = "upload"

\* run, from its first statement to the first await
RunStart ==
    /\ pc = "start"
    /\ IF Len(config.stage_one_reviewers) # 2
       THEN /\ pc' = "failed"
            /\ UNCHANGED <<current_submission, history, attempts, activity>>
       ELSE /\ current_submission' = Some(config.initial_submission)
            /\ history' = Append(history,
                    Entry("WorkflowStarted", "", config.initial_submission.version, 0))
            /\ StartAttempt(config.initial_submission)
    /\ UNCHANGED <<otherVars, config, pending_submission, ledger, awaiting_resubmission,
                   roundVars, runLocals, nsignals>>

\* _upload_current_submission resumes, then _run_round_one up to asyncio.gather
UploadDone ==
    /\ pc = "upload"
    /\ history' = Append(history,
            Entry("Uploaded", "", Get(current_submission).version, 0))
    /\ current_round_name' = Some(<<"Round1", Get(current_submission).version>>)
    /\ expected_stages' = <<"Review1.a", "Review1.b">>
    /\ activity' = <<ActivityCall("dispatch_review_request", "Review1.a",
                                  Get(current_submission).version),
                     ActivityCall("dispatch_review_request", "Review1.b",
                                  Get(current_submission).version)>>
    /\ pc' = "dispatch1"
    /\ UNCHANGED <<otherVars, config, current_submission, pending_submission, ledger,
                   awaiting_resubmission, attempts, runLocals, nsignals>>

\* the dispatch activities of the open round completed; the run loop
\* registers the wait_condition of _wait_for_stages
DispatchDone ==
    /\ pc \in {"dispatch1", "dispatch2", "dispatch3"}
    /\ pc' = CASE pc = "dispatch1" -> "wait1"
              [] pc = "dispatch2" -> "wait2"
              [] pc = "dispatch3" -> "wait3"
    /\ activity' = <<>>
    /\ UNCHANGED <<otherVars, config, current_submission, pending_submission, ledger,
                   awaiting_resubmission, attempts, history, roundVars,
                   runLocals, nsignals>>

\* _request_resubmission up to the await of record_revision_request
RequestResubmission(stage) ==
    /\ awaiting_resubmission' = TRUE
    /\ activity' = <<ActivityCall("record_revision_request", stage,
                                  Get(current_submission).version)>>
    /\ pc' = "reject"

\* _run_round_two / _run_round_three up to the await of the dispatch
OpenRound(name, stage, nextpc) ==
    /\ current_round_name' = Some(<<name, Get(current_submission).version>>)
    /\ expected_stages' = <<stage>>
    /\ activity' = <<ActivityCall("dispatch_review_request", stage,
                                  Get(current_submission).version)>>
    /\ pc' = nextpc

\* the result stamped with the initial submission and a single attempt
BuildResult_initial(approvers) ==
    /\ result' = Some([approved_version |-> config.initial_submission.version,
                       attempts |-> 1,
                       approvers |-> approvers])
    /\ activity' = <<ActivityCall("finalize_review", "", Get(current_submission).version)>>
    /\ pc' = "finalize"

\* building approvers and SchemaApprovalResult, up to the await of finalize_review
BuildResult(approvers) ==
    /\ result' = Some([approved_version |-> Get(current_submission).version,
                       attempts |-> attempts,
                       approvers |-> approvers])
    /\ activity' = <<ActivityCall("finalize_review", "", Get(current_submission).version)>>
    /\ pc' = "finalize"

\* _wait_for_stages resumes for Round 1; _run_round_one finishes; run tests
\* _round_one_approved and either rejects or opens Round 2
CloseRoundOne ==
    /\ pc = "wait1"
    /\ StagesRecorded(expected_stages)
    /\ decisions' = PoppedDecisions(expected_stages)
    /\ completed_decisions' = CompletedAfter(expected_stages)
    /\ history' = Append(history,
            Entry("CollectedRoundOne", "", Get(current_submission).version, 0))
    /\ IF ~ _round_one_approved(completed_decisions')
       THEN /\ RequestResubmission("Review1Check")
            /\ current_round_name' = None
            /\ expected_stages' = <<>>
       ELSE /\ OpenRound("Round2", "Review2", "dispatch2")
            /\ UNCHANGED awaiting_resubmission
    /\ UNCHANGED <<otherVars, config, current_submission, pending_submission, attempts,
                   runLocals, nsignals>>

\* the rejection test of Round 2 / Round 3 dropped
DecisionApproved_always(decision) == TRUE

\* `round_two_decision.approved` / `round_three_decision.approved`
DecisionApproved(decision) == decision.approved

\* the follow-up flag tested for presence instead of truth
requires_more_review_present(decision) == decision.requires_additional_review \in BOOLEAN

\* requires_more_review = bool(round_two_decision.requires_additional_review)
requires_more_review(decision) == decision.requires_additional_review = TRUE

\* the approvers dict literal of run; `three` is None when Round 3 did not run
\* approvers taken from the pending decisions when a newer one is there
ApproversOf_pending(completed, two, three) ==
    LET pick(s, d) == IF s \in DOMAIN decisions' THEN decisions'[s].reviewer ELSE d.reviewer
        base == [s \in {"Review1.a", "Review1.b", "Review2"} |->
                    IF s = "Review2" THEN pick(s, two) ELSE pick(s, completed[s])]
    IN  IF three = None THEN base ELSE DictSet(base, "Review3", Get(three).reviewer)

ApproversOf(completed, two, three) ==
    LET base == [s \in {"Review1.a", "Review1.b", "Review2"} |->
                    IF s = "Review2" THEN two.reviewer ELSE completed[s].reviewer]
    IN  IF three = None THEN base ELSE DictSet(base, "Review3", Get(three).reviewer)

\* _wait_for_stages resumes for Round 2; _run_round_two returns the decision;
\* run rejects, opens Round 3, or builds the result without Review3
CloseRoundTwo ==
    /\ pc = "wait2"
    /\ StagesRecorded(expected_stages)
    /\ decisions' = PoppedDecisions(expected_stages)
    /\ completed_decisions' = CompletedAfter(expected_stages)
    /\ history' = Append(history,
            Entry("CollectedRoundTwo", "", Get(current_submission).version, 0))
    /\ round_two_decision' = Some(decisions["Review2"])
    /\ IF ~ DecisionApproved(decisions["Review2"])
       THEN /\ RequestResubmission("Review2Check")
            /\ current_round_name' = None
            /\ expected_stages' = <<>>
            /\ UNCHANGED result
       ELSE IF requires_more_review(decisions["Review2"])
       THEN /\ OpenRound("Round3", "Review3", "dispatch3")
            /\ UNCHANGED <<awaiting_resubmission, result>>
       ELSE /\ BuildResult(ApproversOf(completed_decisions', decisions["Review2"], None))
            /\ current_round_name' = None
            /\ expected_stages' = <<>>
            /\ UNCHANGED awaiting_resubmission
    /\ UNCHANGED <<otherVars, config, current_submission, pending_submission, attempts,
                   round_three_decision, nsignals>>

\* _wait_for_stages resumes for Round 3; _run_round_three returns the decision;
\* run rejects or builds the result with Review3
CloseRoundThree ==
    /\ pc = "wait3"
    /\ StagesRecorded(expected_stages)
    /\ decisions' = PoppedDecisions(expected_stages)
    /\ completed_decisions' = CompletedAfter(expected_stages)
    /\ history' = Append(history,
            Entry("CollectedRoundThree", "", Get(current_submission).version, 0))
    /\ round_three_decision' = Some(decisions["Review3"])
    /\ current_round_name' = None
    /\ expected_stages' = <<>>
    /\ IF ~ DecisionApproved(decisions["Review3"])
       THEN /\ RequestResubmission("Review3Check")
            /\ UNCHANGED result
       ELSE /\ BuildResult(ApproversOf(completed_decisions', Get(round_two_decision),
                                       Some(decisions["Review3"])))
            /\ UNCHANGED awaiting_resubmission
    /\ UNCHANGED <<otherVars, config, current_submission, pending_submission, attempts,
                   round_two_decision, nsignals>>

\* record_revision_request returned; _request_resubmission registers its
\* wait_condition on pending_submission
RejectionRecorded ==
    /\ pc = "reject"
    /\ history' = Append(history,
            Entry("AwaitingResubmission", activity[1].stage,
                  Get(current_submission).version, 0))
    /\ activity' = <<>>
    /\ pc' = "gate"
    /\ UNCHANGED <<otherVars, config, current_submission, pending_submission, ledger,
                   awaiting_resubmission, attempts, roundVars, runLocals, nsignals>>

\* the gate installing the pending submission without clearing the ledger
_request_resubmission_keep ==
    /\ pc = "gate"
    /\ pending_submission # None
    /\ attempts < MaxAttempts
    /\ current_submission' = pending_submission
    /\ pending_submission' = None
    /\ awaiting_resubmission' = FALSE
    /\ current_round_name' = None
    /\ expected_stages' = <<>>
    /\ history' = Append(history,
            Entry("ReceivedResubmission", "", Get(pending_submission).version, 0))
    /\ StartAttempt(Get(pending_submission))
    /\ UNCHANGED <<otherVars, config, ledger, runLocals, nsignals>>

\* the wait_condition of _request_resubmission holds: install the pending
\* submission, clear the ledger, `continue` into the next attempt
_request_resubmission ==
    /\ pc = "gate"
    /\ pending_submission # None
    /\ attempts < MaxAttempts
    /\ current_submission' = pending_submission
    /\ pending_submission' = None
    /\ decisions' = EmptyDict
    /\ completed_decisions' = EmptyDict
    /\ awaiting_resubmission' = FALSE
    /\ current_round_name' = None
    /\ expected_stages' = <<>>
    /\ history' = Append(history,
            Entry("ReceivedResubmission", "", Get(pending_submission).version, 0))
    /\ StartAttempt(Get(pending_submission))
    /\ UNCHANGED <<otherVars, config, runLocals, nsignals>>

\* finalize_review returned; run appends the approval entry and returns result
FinalizeDone ==
    /\ pc = "finalize"
    /\ history' = Append(history,
            Entry("Approved", "", Get(current_submission).version, attempts))
    /\ activity' = <<>>
    /\ pc' = "done"
    /\ UNCHANGED <<otherVars, config, current_submission, pending_submission, ledger,
                   awaiting_resubmission, attempts, roundVars, runLocals, nsignals>>

\* an exhausted activity handled like a reviewer's rejection: the run marks
\* itself as awaiting a resubmission and suspends at the gate
ActivityFailed_as_rejection ==
    /\ activity # <<>>
    /\ pc' = "gate"
    /\ activity' = <<>>
    /\ awaiting_resubmission' = TRUE
    /\ UNCHANGED <<otherVars, config, current_submission, pending_submission, ledger,
                   attempts, history, roundVars, runLocals, nsignals>>

\* an activity exhausts _RETRY_POLICY: the ActivityError propagates out of run
ActivityFailed ==
    /\ activity # <<>>
    /\ pc' = "failed"
    /\ activity' = <<>>
    /\ UNCHANGED <<otherVars, config, current_submission, pending_submission, ledger,
                   awaiting_resubmission, attempts, history, roundVars,
                   runLocals, nsignals>>

(***************************************************************************)
(* The status query: a read of the fields that builds new lists and dicts. *)
(***************************************************************************)
\* status listing every expected stage as awaited
status_all_expected ==
    [current_round |->
        IF current_round_name # None /\ current_submission # None
        THEN Some([round_name |-> Get(current_round_name),
                   submission_version |-> Get(current_submission).version,
                   awaiting_reviewers |-> expected_stages,
                   collected_decisions |->
                       [s \in (DOMAIN decisions) \cap Range(expected_stages) |->
                           decisions[s]]])
        ELSE None,
     awaiting_resubmission |-> awaiting_resubmission,
     attempts |-> attempts,
     history |-> history]

\* the WorkflowStatus returned by the query
status ==
    [current_round |->
        IF current_round_name # None /\ current_submission # None
        THEN Some([round_name |-> Get(current_round_name),
                   submission_version |-> Get(current_submission).version,
                   awaiting_reviewers |->
                       SelectSeq(expected_stages, LAMBDA s : s \notin DOMAIN decisions),
                   collected_decisions |->
                       [s \in (DOMAIN decisions) \cap Range(expected_stages) |->
                           decisions[s]]])
        ELSE None,
     awaiting_resubmission |-> awaiting_resubmission,
     attempts |-> attempts,
     history |-> history]

\* a query is answered in any state of the run, closed or not; the handler
\* assigns no field
StatusQuery ==
    /\ DOMAIN status = {"current_round", "awaiting_resubmission", "attempts", "history"}
    /\ UNCHANGED vars

(***************************************************************************)
(* Signal delivery.  The engine delivers signals to a run that has not     *)
(* closed, also before the run method has executed its first statement.    *)
(* A signal is solicited when it is the first answer to a request the run  *)
(* has open: a decision for a stage of the open round that has no pending  *)
(* decision yet, or a newer submission while a revision is requested and   *)
(* none is pending.  All other signals count against MaxUnsolicited.       *)
(***************************************************************************)
SignalDeliverable == pc \notin {"done", "failed"}

SolicitedDecision(decision) ==
    /\ current_submission # None
    /\ decision.submission_version = Get(current_submission).version
    /\ decision.stage \in Range(expected_stages)
    /\ decision.stage \notin DOMAIN decisions

SolicitedSubmission(submission) ==
    /\ awaiting_resubmission
    /\ pending_submission = None
    /\ submission.version > Get(current_submission).version

Budget(solicited) ==
    IF solicited THEN UNCHANGED nsignals
    ELSE nsignals < MaxUnsolicited /\ nsignals' = nsignals + 1

SubmitSignal ==
    \E submission \in SchemaSubmission :
        /\ SignalDeliverable
        /\ Budget(SolicitedSubmission(submission))
        /\ submit_schema(submission)

DecisionSignal ==
    \E decision \in ReviewDecision :
        /\ SignalDeliverable
        /\ Budget(SolicitedDecision(decision))
        /\ record_review_decision(decision)

Next ==
    \/ RunStart
    \/ UploadDone
    \/ DispatchDone
    \/ CloseRoundOne
    \/ CloseRoundTwo
    \/ CloseRoundThree
    \/ RejectionRecorded
    \/ _request_resubmission
    \/ FinalizeDone
    \/ ActivityFailed
    \/ SubmitSignal
    \/ DecisionSignal
    \/ StatusQuery

Spec == Init /\ [][Next]_vars

(***************************************************************************)
(* The run with activities that succeed.  The engine resumes the coroutine *)
(* once the activity it awaits has returned or its wait_condition holds,   *)
(* so every step of the run loop is weakly fair; signals are not.          *)
(***************************************************************************)
RunLoop ==
    \/ RunStart
    \/ UploadDone
    \/ DispatchDone
    \/ CloseRoundOne
    \/ CloseRoundTwo
    \/ CloseRoundThree
    \/ RejectionRecorded
    \/ _request_resubmission
    \/ FinalizeDone

LiveNext ==
    \/ RunLoop
    \/ SubmitSignal
    \/ DecisionSignal

LiveSpec == Init /\ [][LiveNext]_vars /\ WF_vars(RunLoop)

TypeOK ==
    /\ pc \in {"start", "upload", "dispatch1", "wait1", "dispatch2", "wait2",
               "dispatch3", "wait3", "reject", "gate", "finalize", "done", "failed"}
    /\ attempts \in 0..MaxAttempts
    /\ nsignals \in 0..MaxUnsolicited
    /\ DOMAIN decisions \subseteq _VALID_STAGES
    /\ DOMAIN completed_decisions \subseteq _VALID_STAGES

(***************************************************************************)
(* The plan-driven variant: data classes of shared.py and the activities   *)
(* of activities.py.  An activity either returns a value or raises.        *)
(***************************************************************************)
Return(value) == [raised |-> FALSE, value |-> value]
Raise(error, detail) == [raised |-> TRUE, error |-> error, detail |-> detail]

ReviewStageName == {"Review1.a", "Review1.b", "Review2", "Review3"}

\* ReviewDecisionPlan(reviewer, approved, skip_follow_up)
ReviewDecisionPlan ==
    [reviewer : {"alice", "bob"}, approved : BOOLEAN, skip_follow_up : BOOLEAN]

\* ReviewRoundPlan.__post_init__ testing only for a missing review3
ReviewRoundPlan_post_init_missing(plan) ==
    ~ (plan.requires_review3 /\ plan.review3 = None)

\* ReviewRoundPlan.__post_init__: review3 is given iff requires_review3
ReviewRoundPlan_post_init(plan) ==
    /\ ~ (plan.requires_review3 /\ plan.review3 = None)
    /\ ~ (~ plan.requires_review3 /\ plan.review3 # None)

\* the decision plans of the rounds checked: the primary reviewer approves,
\* rejects, or approves with a misplaced skip_follow_up; the secondary one
\* approves or rejects; Review2 approves waiving the follow-up, approves, or
\* rejects; Review3 is absent, approves or rejects
PrimaryPlans ==
    {[reviewer |-> "alice", approved |-> TRUE, skip_follow_up |-> FALSE],
     [reviewer |-> "alice", approved |-> FALSE, skip_follow_up |-> FALSE],
     [reviewer |-> "alice", approved |-> TRUE, skip_follow_up |-> TRUE]}
SecondaryPlans ==
    {[reviewer |-> "bob", approved |-> a, skip_follow_up |-> FALSE] : a \in BOOLEAN}
Review2Plans ==
    {[reviewer |-> "carol", approved |-> TRUE, skip_follow_up |-> TRUE],
     [reviewer |-> "carol", approved |-> TRUE, skip_follow_up |-> FALSE],
     [reviewer |-> "carol", approved |-> FALSE, skip_follow_up |-> FALSE]}
Review3Plans ==
    {None} \cup
    {Some([reviewer |-> "dave", approved |-> a, skip_follow_up |-> FALSE]) : a \in BOOLEAN}

\* the ReviewRoundPlan objects that can be constructed
ReviewRoundPlan ==
    {plan \in [schema_id : {"schema-1"},
               review1_primary : PrimaryPlans,
               review1_secondary : SecondaryPlans,
               review2 : Review2Plans,
               requires_review3 : BOOLEAN,
               review3 : Review3Plans] : ReviewRoundPlan_post_init(plan)}

\* sequences over S of length lo..hi
SeqsOf(S, lo, hi) == UNION {[1..n -> S] : n \in lo..hi}

\* SchemaApprovalInput.__post_init__: at least one round
SchemaApprovalInput_post_init(rs) == rs # <<>>

\* the rounds of the SchemaApprovalInput objects that can be constructed
SchemaApprovalInput ==
    {rs \in SeqsOf(ReviewRoundPlan, 0, MaxRounds) : SchemaApprovalInput_post_init(rs)}

\* the property ReviewOutcome.requires_follow_up read as always true
requires_follow_up_always(outcome) == TRUE

\* the property ReviewOutcome.requires_follow_up
requires_follow_up(outcome) == ~ outcome.skip_additional_review

\* upload_schema stamping every submission as iteration 1
upload_schema_first(plan, iter) ==
    Return([schema_id |-> plan.schema_id, iteration |-> 1])

\* activity upload_schema
upload_schema(plan, iter) ==
    Return([schema_id |-> plan.schema_id, iteration |-> iter])

\* perform_review reporting every decision as an approval
perform_review_approving(request) ==
    IF request.decision.skip_follow_up /\ request.stage # "Review2"
    THEN Raise("ValueError", <<"skip_follow_up is only supported for the second level review">>)
    ELSE Return([stage |-> request.stage,
                 reviewer |-> request.decision.reviewer,
                 approved |-> TRUE,
                 skip_additional_review |-> request.decision.skip_follow_up])

\* activity perform_review
perform_review(request) ==
    IF request.decision.skip_follow_up /\ request.stage # "Review2"
    THEN Raise("ValueError", <<"skip_follow_up is only supported for the second level review">>)
    ELSE Return([stage |-> request.stage,
                 reviewer |-> request.decision.reviewer,
                 approved |-> request.decision.approved,
                 skip_additional_review |-> request.decision.skip_follow_up])

\* the reviewers of a sequence of outcomes, in order
Reviewers(outs) == [i \in 1..Len(outs) |-> outs[i].reviewer]

\* ensure_all_approved raising only when no reviewer approved
ensure_all_approved_none(request) ==
    LET disapprovals == SelectSeq(request.approvals, LAMBDA o : ~ o.approved)
    IN  IF disapprovals # <<>> /\ Len(disapprovals) = Len(request.approvals)
        THEN Raise("ValueError", Reviewers(disapprovals))
        ELSE Return(None)

\* CompleteReviewRequest.ensure_all_approved
ensure_all_approved(request) ==
    LET disapprovals == SelectSeq(request.approvals, LAMBDA o : ~ o.approved)
    IN  IF disapprovals # <<>>
        THEN Raise("ValueError", Reviewers(disapprovals))
        ELSE Return(None)

\* activity complete_review
complete_review(request) ==
    IF ensure_all_approved(request).raised
    THEN ensure_all_approved(request)
    ELSE Return([submission |-> request.submission,
                 iteration |-> request.iteration,
                 approved |-> TRUE,
                 summary |-> <<request.submission.schema_id, request.iteration,
                               Reviewers(request.approvals)>>])

(***************************************************************************)
(* An activity function called on its own, as the unit tests call it.      *)
(***************************************************************************)
\* outcomes handed to complete_review
ReviewOutcome ==
    [stage : {"Review1.a"}, reviewer : {"alice", "bob"}, approved : BOOLEAN,
     skip_additional_review : {FALSE}]

ReviewRequest ==
    [stage : ReviewStageName, iteration : {1}, decision : ReviewDecisionPlan]

CompleteReviewRequest ==
    [submission : {[schema_id |-> "schema-1", iteration |-> 1]},
     iteration : {1},
     approvals : SeqsOf(ReviewOutcome, 0, MaxApprovals)]

UploadRequest == [plan : {[schema_id |-> "schema-1"]}, iteration : 1..2]

ActivityCalls ==
    [activity : {"perform_review"}, request : ReviewRequest]
    \cup [activity : {"complete_review"}, request : CompleteReviewRequest]
    \cup [activity : {"upload_schema"}, request : UploadRequest]

\* the signal-driven workflow was not started
SignalIdle ==
    /\ config = None
    /\ current_submission = None
    /\ pending_submission = None
    /\ decisions = EmptyDict
    /\ completed_decisions = EmptyDict
    /\ awaiting_resubmission = FALSE
    /\ attempts = 0
    /\ history = <<>>
    /\ current_round_name = None
    /\ expected_stages = <<>>
    /\ pc = "idle"
    /\ round_two_decision = None
    /\ round_three_decision = None
    /\ result = None
    /\ activity = <<>>
    /\ nsignals = 0

ActivityInit ==
    /\ call \in {Some(c) : c \in ActivityCalls}
    /\ returned = None
    /\ PlanIdle
    /\ SignalIdle

PerformReviewCall ==
    /\ call # None /\ returned = None
    /\ Get(call).activity = "perform_review"
    /\ returned' = Some(perform_review(Get(call).request))
    /\ UNCHANGED <<call, signalVars, planVars>>

CompleteReviewCall ==
    /\ call # None /\ returned = None
    /\ Get(call).activity = "complete_review"
    /\ returned' = Some(complete_review(Get(call).request))
    /\ UNCHANGED <<call, signalVars, planVars>>

UploadSchemaCall ==
    /\ call # None /\ returned = None
    /\ Get(call).activity = "upload_schema"
    /\ returned' = Some(upload_schema(Get(call).request.plan, Get(call).request.iteration))
    /\ UNCHANGED <<call, signalVars, planVars>>

ActivityNext ==
    \/ PerformReviewCall
    \/ CompleteReviewCall
    \/ UploadSchemaCall

ActivitySpec == ActivityInit /\ [][ActivityNext]_vars

(***************************************************************************)
(* The plan-driven workflow, whose decisions are supplied up front, one    *)
(* ReviewRoundPlan per iteration.  Each action is the return of the        *)
(* awaited activity followed by the run's steps up to its next await.      *)
(***************************************************************************)
PlanInit ==
    /\ rounds \in SchemaApprovalInput
    /\ iteration = 0
    /\ plan_submission = None
    /\ outcomes = EmptyDict
    /\ iteration_history = <<>>
    /\ final_report = None
    /\ plan_pc = "start"
    /\ plan_error = None
    /\ SignalIdle
    /\ CallIdle

\* ReviewIterationResult of the iteration with the outcomes collected
ReviewIterationResult(outs, approved) ==
    [iteration |-> iteration,
     submission |-> Get(plan_submission),
     primary_review |-> outs["Review1.a"],
     secondary_review |-> outs["Review1.b"],
     second_level_review |->
         IF "Review2" \in DOMAIN outs THEN Some(outs["Review2"]) ELSE None,
     final_review |->
         IF "Review3" \in DOMAIN outs THEN Some(outs["Review3"]) ELSE None,
     approved |-> approved]

\* the approvals handed to complete_review: every executed stage, in order
Approvals(outs) ==
    <<outs["Review1.a"], outs["Review1.b"], outs["Review2"]>>
    \o (IF "Review3" \in DOMAIN outs THEN <<outs["Review3"]>> ELSE <<>>)

ReviewRequestOf(stage, decision) ==
    [stage |-> stage, iteration |-> iteration, decision |-> decision]

\* the run starts its first iteration and awaits the upload
PlanStart ==
    /\ plan_pc = "start"
    /\ iteration' = 1
    /\ plan_pc' = "upload"
    /\ UNCHANGED <<rounds, plan_submission, outcomes, iteration_history,
                   final_report, plan_error, signalVars, callVars>>

\* upload_schema returned; the run awaits the two Review1 outcomes
PlanUploaded ==
    /\ plan_pc = "upload"
    /\ plan_submission' = Some(upload_schema(rounds[iteration], iteration).value)
    /\ outcomes' = EmptyDict
    /\ plan_pc' = "round1"
    /\ UNCHANGED <<rounds, iteration, iteration_history, final_report,
                   plan_error, signalVars, callVars>>

\* a rejected iteration: its entry is appended, then the next round of the
\* plan is started, or the run ends "not approved after N iterations"
RejectIteration(outs) ==
    /\ iteration_history' =
           Append(iteration_history, ReviewIterationResult(outs, FALSE))
    /\ IF iteration < Len(rounds)
       THEN /\ iteration' = iteration + 1
            /\ plan_pc' = "upload"
            /\ UNCHANGED plan_error
       ELSE /\ plan_pc' = "exhausted"
            /\ plan_error' = Some(<<"NotApproved", Len(rounds)>>)
            /\ UNCHANGED iteration

\* an activity raised: the error ends the run
PlanFail(error) ==
    /\ plan_pc' = "failed"
    /\ plan_error' = Some(<<error>>)
    /\ UNCHANGED <<iteration, iteration_history, outcomes>>

\* both Review1 activities returned
PlanRoundOne ==
    /\ plan_pc = "round1"
    /\ LET plan == rounds[iteration]
           a == perform_review(ReviewRequestOf("Review1.a", plan.review1_primary))
           b == perform_review(ReviewRequestOf("Review1.b", plan.review1_secondary))
       IN  IF a.raised \/ b.raised
           THEN PlanFail("ValueError")
           ELSE LET outs == [s \in {"Review1.a", "Review1.b"} |->
                                IF s = "Review1.a" THEN a.value ELSE b.value]
                IN  /\ outcomes' = outs
                    /\ IF a.value.approved /\ b.value.approved
                       THEN /\ plan_pc' = "round2"
                            /\ UNCHANGED <<iteration, iteration_history, plan_error>>
                       ELSE RejectIteration(outs)
    /\ UNCHANGED <<rounds, plan_submission, final_report, signalVars, callVars>>

\* the Review2 activity returned
PlanRoundTwo ==
    /\ plan_pc = "round2"
    /\ LET plan == rounds[iteration]
           r == perform_review(ReviewRequestOf("Review2", plan.review2))
       IN  IF r.raised
           THEN PlanFail("ValueError")
           ELSE LET outs == DictSet(outcomes, "Review2", r.value)
                IN  /\ outcomes' = outs
                    /\ IF ~ r.value.approved
                       THEN RejectIteration(outs)
                       ELSE /\ plan_pc' =
                                  IF plan.requires_review3 /\ requires_follow_up(r.value)
                                  THEN "round3" ELSE "complete"
                            /\ UNCHANGED <<iteration, iteration_history, plan_error>>
    /\ UNCHANGED <<rounds, plan_submission, final_report, signalVars, callVars>>

\* the Review3 activity returned
PlanRoundThree ==
    /\ plan_pc = "round3"
    /\ LET plan == rounds[iteration]
           r == perform_review(ReviewRequestOf("Review3", Get(plan.review3)))
       IN  IF r.raised
           THEN PlanFail("ValueError")
           ELSE LET outs == DictSet(outcomes, "Review3", r.value)
                IN  /\ outcomes' = outs
                    /\ IF ~ r.value.approved
                       THEN RejectIteration(outs)
                       ELSE /\ plan_pc' = "complete"
                            /\ UNCHANGED <<iteration, iteration_history, plan_error>>
    /\ UNCHANGED <<rounds, plan_submission, final_report, signalVars, callVars>>

\* complete_review returned: the approved iteration's entry is appended and
\* the run returns the report with the history
PlanCompleted ==
    /\ plan_pc = "complete"
    /\ LET r == complete_review([submission |-> Get(plan_submission),
                                 iteration |-> iteration,
                                 approvals |-> Approvals(outcomes)])
       IN  IF r.raised
           THEN /\ PlanFail("ValueError")
                /\ UNCHANGED final_report
           ELSE /\ final_report' = Some(r.value)
                /\ iteration_history' =
                       Append(iteration_history, ReviewIterationResult(outcomes, TRUE))
                /\ plan_pc' = "done"
                /\ UNCHANGED <<iteration, outcomes, plan_error>>
    /\ UNCHANGED <<rounds, plan_submission, signalVars, callVars>>

\* the awaited activity fails for good: the ActivityError ends the run
PlanActivityFailed ==
    /\ plan_pc \in {"upload", "round1", "round2", "round3", "complete"}
    /\ plan_pc' = "failed"
    /\ plan_error' = Some(<<"ActivityError">>)
    /\ UNCHANGED <<rounds, iteration, plan_submission, outcomes,
                   iteration_history, final_report, signalVars, callVars>>

PlanNext ==
    \/ PlanStart
    \/ PlanUploaded
    \/ PlanRoundOne
    \/ PlanRoundTwo
    \/ PlanRoundThree
    \/ PlanCompleted
    \/ PlanActivityFailed

PlanSpec == PlanInit /\ [][PlanNext]_vars

(***************************************************************************)
(* Construction of the plan-driven input: the caller builds the            *)
(* ReviewRoundPlan objects, then the SchemaApprovalInput, and hands it to  *)
(* execute_workflow.  A constructor whose __post_init__ raises yields no   *)
(* object.                                                                 *)
(***************************************************************************)
\* keyword arguments given to ReviewRoundPlan(...): any combination of
\* requires_review3 and review3
ReviewRoundPlanArgs ==
    [schema_id : {"schema-1"},
     review1_primary : {[reviewer |-> "alice", approved |-> TRUE, skip_follow_up |-> FALSE]},
     review1_secondary : SecondaryPlans,
     review2 : Review2Plans,
     requires_review3 : BOOLEAN,
     review3 : Review3Plans]

\* ReviewRoundPlan(**args): the dataclass __init__ followed by __post_init__
ReviewRoundPlan_new(args) ==
    IF ReviewRoundPlan_post_init(args)
    THEN Return(args)
    ELSE Raise("ValueError",
               IF args.requires_review3
               THEN <<"review3 decision must be provided when requires_review3 is True">>
               ELSE <<"review3 decision cannot be provided when requires_review3 is False">>)

\* SchemaApprovalInput(rounds=[ReviewRoundPlan(**a) for a in args]): the list
\* elements are evaluated first, in order; the first raise ends the expression
SchemaApprovalInput_new(args) ==
    LET failing == {i \in 1..Len(args) : ReviewRoundPlan_new(args[i]).raised}
    IN  IF failing # {}
        THEN ReviewRoundPlan_new(args[CHOOSE i \in failing : \A j \in failing : i <= j])
        ELSE IF ~ SchemaApprovalInput_post_init(args)
        THEN Raise("ValueError", <<"At least one review round must be provided">>)
        ELSE Return([i \in 1..Len(args) |-> ReviewRoundPlan_new(args[i]).value])

ConstructInit ==
    /\ call \in {Some([activity |-> "SchemaApprovalInput", request |-> args]) :
                    args \in SeqsOf(ReviewRoundPlanArgs, 0, MaxRounds)}
    /\ returned = None
    /\ PlanIdle
    /\ SignalIdle

\* the caller evaluates the constructor expression
ConstructInput ==
    /\ call # None /\ returned = None
    /\ Get(call).activity = "SchemaApprovalInput"
    /\ returned' = Some(SchemaApprovalInput_new(Get(call).request))
    /\ UNCHANGED <<call, signalVars, planVars>>

\* execute_workflow(SchemaApprovalWorkflow.run, request): reached only with
\* the request object built
ExecuteWorkflow ==
    /\ returned # None
    /\ ~ Get(returned).raised
    /\ plan_pc = "idle"
    /\ rounds' = Get(returned).value
    /\ plan_pc' = "start"
    /\ UNCHANGED <<iteration, plan_submission, outcomes, iteration_history,
                   final_report, plan_error, signalVars, callVars>>

ConstructNext ==
    \/ ConstructInput
    \/ ExecuteWorkflow
    \/ PlanStart
    \/ PlanUploaded
    \/ PlanRoundOne
    \/ PlanRoundTwo
    \/ PlanRoundThree
    \/ PlanCompleted
    \/ PlanActivityFailed

ConstructSpec == ConstructInit /\ [][ConstructNext]_vars

(***************************************************************************)
(* Properties.                                                             *)
(***************************************************************************)
Last(seq) == seq[Len(seq)]
HasEntry(kind) == \E i \in 1..Len(history) : history[i].kind = kind
IgnoredKinds == {"IgnoredDecisionVersion", "IgnoredDecisionStage"}

\* the step appends exactly one entry of one of the kinds to history
AppendsOne(kinds) ==
    /\ Len(history') = Len(history) + 1
    /\ SubSeq(history', 1, Len(history)) = history
    /\ Last(history').kind \in kinds

StaleOrUnknown(decision) ==
    \/ /\ current_submission # None
       /\ decision.submission_version # Get(current_submission).version
    \/ decision.stage \notin _VALID_STAGES

\* A signal handler runs while the run loop is suspended: a handler step
\* keeps pc, which is why the handler properties look at steps with
\* pc' = pc only.
NoRunEffect == UNCHANGED <<current_submission, pending_submission, awaiting_resubmission,
                          attempts, roundVars, pc, runLocals, activity>>

Stored(decision) ==
    /\ decision.stage \in DOMAIN decisions'
    /\ decisions'[decision.stage] = decision
    /\ AppendsOne({"RecordedDecision"})

C4_OutdatedSubmissionIgnored ==
    [][pc' = pc => \A submission \in SchemaSubmission :
          submit_schema(submission) =>
             /\ UNCHANGED <<current_submission, ledger>>
             /\ UNCHANGED <<awaiting_resubmission, attempts, roundVars, pc,
                            runLocals, activity>>
             /\ IF current_submission # None
                   /\ submission.version <= Get(current_submission).version
                THEN /\ UNCHANGED pending_submission
                     /\ AppendsOne({"IgnoredOutdatedSubmission"})
                     /\ Last(history').version = submission.version
                ELSE /\ pending_submission' = Some(submission)
                     /\ UNCHANGED history]_vars

\* an outdated candidate was ignored while a newer one stayed pending
C4_Witness ==
    /\ HasEntry("IgnoredOutdatedSubmission")
    /\ pending_submission # None
    /\ current_submission # None
    /\ Get(pending_submission).version > Get(current_submission).version

\* the step is the gate of _request_resubmission resuming with a new submission
GateStep == pc = "gate" /\ pc' = "upload"

\* the approvers of the result are the reviewers of the collected decisions
ApproversAreCollected ==
    result # None =>
        \A s \in DOMAIN Get(result).approvers :
            /\ s \in DOMAIN completed_decisions
            /\ Get(result).approvers[s] = completed_decisions[s].reviewer

\* C3: once a round closed, the completed decision of each of its stages
\* stays the one collected, whatever signals arrive, until the resubmission
\* gate clears the ledger; signals never change the verdict already taken
\* (the position of the run loop, its collected round decisions, the
\* rejection flag), and the approvers map holds the reviewers collected.
C3_ClosedRoundImmutable ==
    [][/\ GateStep \/ \A s \in DOMAIN completed_decisions :
                         /\ s \in DOMAIN completed_decisions'
                         /\ completed_decisions'[s] = completed_decisions[s]
       /\ (pc' = pc /\ \E decision \in ReviewDecision : record_review_decision(decision))
             => UNCHANGED <<completed_decisions, round_two_decision,
                            round_three_decision, result, awaiting_resubmission,
                            pc, activity>>
       /\ (pc' \in {"finalize", "done"}) => ApproversAreCollected']_vars

\* the result was built although a later Review1.a decision by another
\* reviewer arrived after Round 1 had closed
C3_Witness ==
    /\ pc = "finalize"
    /\ "Review1.a" \in DOMAIN decisions
    /\ decisions["Review1.a"].reviewer # completed_decisions["Review1.a"].reviewer
    /\ Get(result).approvers["Review1.a"] = completed_decisions["Review1.a"].reviewer

\* C5: every time the resubmission gate installs a new active submission,
\* its version is strictly greater than the version it replaces.
C5_VersionStrictlyIncreases ==
    [][GateStep => Get(current_submission').version > Get(current_submission).version]_vars

Calls(name) == {i \in 1..Len(activity) : activity[i].name = name}
Dispatches(stage) ==
    {i \in 1..Len(activity) :
        activity[i].name = "dispatch_review_request" /\ activity[i].stage = stage}

\* C6: when Round 1 closes, Review2 is dispatched iff the collected
\* Review1.a and Review1.b decisions both approve; otherwise exactly one
\* record_revision_request (stage Review1Check) is issued, the workflow
\* awaits a resubmission, and Review2 is not dispatched before the next
\* iteration starts.
C6_RoundOneVerdict ==
    [][/\ (pc = "wait1" /\ pc' # "wait1") =>
            LET a == completed_decisions'["Review1.a"]
                b == completed_decisions'["Review1.b"]
                v == Get(current_submission).version
            IN  /\ a = decisions["Review1.a"]
                /\ b = decisions["Review1.b"]
                /\ IF a.approved /\ b.approved
                   THEN /\ pc' = "dispatch2"
                        /\ activity' = <<ActivityCall("dispatch_review_request", "Review2", v)>>
                        /\ ~ awaiting_resubmission'
                   ELSE /\ pc' = "reject"
                        /\ activity' = <<ActivityCall("record_revision_request",
                                                      "Review1Check", v)>>
                        /\ awaiting_resubmission'
       /\ (activity' # activity /\ Dispatches("Review2")' # {}) => pc = "wait1"
       /\ (activity' # activity /\ Calls("record_revision_request")' # {})
            => pc \in {"wait1", "wait2", "wait3"}
       /\ pc \in {"reject", "gate"} =>
            /\ pc' \in {"reject", "gate", "upload", "failed"}
            /\ pc' = "upload" => attempts' = attempts + 1]_vars

\* Round 1 was rejected although Review1.a approved
C6_Witness ==
    /\ pc = "reject"
    /\ activity = <<ActivityCall("record_revision_request", "Review1Check",
                                 Get(current_submission).version)>>
    /\ completed_decisions["Review1.a"].approved
    /\ ~ completed_decisions["Review1.b"].approved

\* C7: when Round 2 closes, Review3 is dispatched iff the collected Review2
\* decision approves and asks for the additional review; Review3 is never
\* dispatched otherwise; the approvers of the result are Review1.a,
\* Review1.b, Review2, plus Review3 iff Round 3 ran in that iteration.
C7_RoundThreeIffRequired ==
    [][/\ (pc = "wait2" /\ pc' # "wait2") =>
            LET d == completed_decisions'["Review2"]
            IN  /\ d = decisions["Review2"]
                /\ pc' = "dispatch3" <=> (d.approved /\ d.requires_additional_review)
                /\ pc' = "dispatch3" =>
                     activity' = <<ActivityCall("dispatch_review_request", "Review3",
                                                Get(current_submission).version)>>
       /\ (activity' # activity /\ Dispatches("Review3")' # {}) => pc = "wait2"
       /\ pc' \in {"finalize", "done"} =>
            /\ DOMAIN Get(result').approvers =
                   {"Review1.a", "Review1.b", "Review2"} \cup
                   (IF "Review3" \in DOMAIN completed_decisions' THEN {"Review3"} ELSE {})
            /\ "Review3" \in DOMAIN completed_decisions'
                   <=> completed_decisions'["Review2"].requires_additional_review]_vars

\* the result of an iteration that ran Round 3 names the Review3 reviewer
C7_Witness ==
    /\ pc = "finalize"
    /\ "Review3" \in DOMAIN Get(result).approvers
    /\ Get(result).approvers["Review3"] = completed_decisions["Review3"].reviewer

\* every mandatory stage of the running iteration is collected and approves
AllMandatoryApproved ==
    /\ {"Review1.a", "Review1.b", "Review2"} \subseteq DOMAIN completed_decisions
    /\ completed_decisions["Review2"].requires_additional_review
          => "Review3" \in DOMAIN completed_decisions
    /\ \A s \in DOMAIN completed_decisions : completed_decisions[s].approved

\* C8: a result is built (and finalize_review invoked) iff every mandatory
\* stage of the iteration was collected with approved = true, Review3 being
\* mandatory when Review2 asked for it; all those decisions carry the
\* approved version; run returns the result only from there.
C8_RecordIffAllApproved ==
    /\ AllMandatoryApproved <=> result # None
    /\ result # None =>
         /\ pc \in {"finalize", "done", "failed"}
         /\ \A s \in DOMAIN completed_decisions :
               completed_decisions[s].submission_version = Get(result).approved_version
         /\ Get(result).approved_version = Get(current_submission).version
    /\ pc \in {"finalize", "done"} => result # None
    /\ pc = "finalize" <=> Calls("finalize_review") # {}

\* run returned a result for an iteration in which Round 3 was mandatory
C8_Witness ==
    /\ pc = "done"
    /\ result # None
    /\ completed_decisions["Review2"].requires_additional_review
    /\ completed_decisions["Review3"].approved

\* a decision for the same stage and version is already in the ledger
AlreadyAccepted(decision) ==
    \/ /\ decision.stage \in DOMAIN decisions
       /\ decisions[decision.stage].submission_version = decision.submission_version
    \/ /\ decision.stage \in DOMAIN completed_decisions
       /\ completed_decisions[decision.stage].submission_version
             = decision.submission_version

\* C9: a second record_review_decision for a (stage, version) that was
\* accepted before has no effect on pending decisions, completed decisions
\* and history.
C9_DecisionIdempotent ==
    [][pc' = pc => \A decision \in ReviewDecision :
          (record_review_decision(decision) /\ AlreadyAccepted(decision))
             => UNCHANGED <<decisions, completed_decisions, history>>]_vars

\* the candidate was accepted before: it is the pending submission, or the
\* gate installed it as the active submission
Duplicate(submission) ==
    \/ pending_submission = Some(submission)
    \/ /\ current_submission = Some(submission)
       /\ \E i \in 1..Len(history) :
             history[i] = Entry("ReceivedResubmission", "", submission.version, 0)

Outdated(submission) ==
    /\ current_submission # None
    /\ submission.version <= Get(current_submission).version

RoundCloses == pc \in {"wait1", "wait2", "wait3"} /\ pc' # pc

\* the stages of the round the run loop is in
RoundStages ==
    CASE pc \in {"dispatch1", "wait1"} -> {"Review1.a", "Review1.b"}
      [] pc \in {"dispatch2", "wait2"} -> {"Review2"}
      [] pc \in {"dispatch3", "wait3"} -> {"Review3"}
      [] OTHER -> {}

\* C11: _wait_for_stages returns only when every stage of the round has a
\* pending decision; in that one step exactly the round's decisions move from
\* pending to completed (other pending and completed decisions stay), the
\* moved decisions are the ones returned to the round, no stage of the round
\* was consumed before in the iteration and none is pending right after; the
\* completed decisions change at no other step but the gate's clearing.
C11_WaitForStagesAtomic ==
    [][/\ RoundCloses =>
            /\ RoundStages \subseteq DOMAIN decisions
            /\ RoundStages \cap DOMAIN completed_decisions = {}
            /\ DOMAIN decisions' = (DOMAIN decisions) \ RoundStages
            /\ \A s \in DOMAIN decisions' : decisions'[s] = decisions[s]
            /\ DOMAIN completed_decisions' = (DOMAIN completed_decisions) \cup RoundStages
            /\ \A s \in RoundStages : completed_decisions'[s] = decisions[s]
            /\ \A s \in DOMAIN completed_decisions :
                  completed_decisions'[s] = completed_decisions[s]
            /\ pc = "wait2" => round_two_decision' = Some(decisions["Review2"])
            /\ pc = "wait3" => round_three_decision' = Some(decisions["Review3"])
       /\ completed_decisions' # completed_decisions => (RoundCloses \/ GateStep)
       /\ (pc \in {"wait1", "wait2", "wait3"} /\ ~ (RoundStages \subseteq DOMAIN decisions))
            => pc' = pc]_vars

\* Round 1 closed and consumed its two decisions while an early Review2
\* decision stayed pending
C11_Witness ==
    /\ pc = "dispatch2"
    /\ DOMAIN completed_decisions = {"Review1.a", "Review1.b"}
    /\ DOMAIN decisions = {"Review2"}

\* C12: after a rejection the workflow is marked as awaiting a resubmission
\* and no upload or dispatch is issued until the gate resumes; the gate
\* resumes only with a pending submission whose version is strictly greater
\* than the rejected one, and at that step the active submission becomes the
\* candidate, the pending submission is emptied, pending and completed
\* decisions are empty and awaiting_resubmission is false.
C12_GateResumesWithNewer ==
    [][/\ pc' = "reject" => awaiting_resubmission'
       /\ pc \in {"reject", "gate"} =>
            /\ awaiting_resubmission
            /\ (Calls("upload_schema")' # {} \/ Calls("dispatch_review_request")' # {})
                  => GateStep
       /\ GateStep =>
            /\ pending_submission # None
            /\ Get(pending_submission).version > Get(current_submission).version
            /\ current_submission' = pending_submission
            /\ pending_submission' = None
            /\ decisions' = EmptyDict
            /\ completed_decisions' = EmptyDict
            /\ ~ awaiting_resubmission']_vars

\* the stages of the round status reports, read from the position of the run
OpenRoundOf ==
    CASE pc \in {"dispatch1", "wait1"} -> Some("Round1")
      [] pc \in {"dispatch2", "wait2"} -> Some("Round2")
      [] pc \in {"dispatch3", "wait3"} -> Some("Round3")
      [] OTHER -> None

\* C13: in every reachable state the status query can be answered and
\* answering it changes no variable; the answer holds the attempts counter,
\* the awaiting_resubmission flag and the whole history, and, while a round
\* is open, that round's name, the active version, and as awaiting_reviewers
\* exactly the round's stages that have no pending decision, in order.
C13_StatusReadOnly ==
    LET s == status
    IN  /\ ENABLED StatusQuery
        /\ s.attempts = attempts
        /\ s.history = history
        /\ s.awaiting_resubmission = awaiting_resubmission
        /\ pc # "failed" => (s.current_round # None <=> OpenRoundOf # None)
        /\ s.current_round # None =>
             LET r == Get(s.current_round)
             IN  /\ pc # "failed" =>
                       /\ r.round_name[1] = Get(OpenRoundOf)
                       /\ Range(expected_stages) = RoundStages
                 /\ r.round_name[2] = Get(current_submission).version
                 /\ r.submission_version = Get(current_submission).version
                 /\ Range(r.awaiting_reviewers) =
                       {st \in Range(expected_stages) : st \notin DOMAIN decisions}
                 /\ Len(r.awaiting_reviewers) = Cardinality(Range(r.awaiting_reviewers))
                 /\ DOMAIN r.collected_decisions =
                       Range(expected_stages) \ Range(r.awaiting_reviewers)

\* Round 1 is open with Review1.b recorded and Review1.a outstanding
C13_Witness ==
    /\ pc = "wait1"
    /\ status.current_round # None
    /\ Get(status.current_round).awaiting_reviewers = <<"Review1.a">>
    /\ "Review1.b" \in DOMAIN Get(status.current_round).collected_decisions

\* C14: a decision carrying the follow-up flag for a stage other than
\* Review2 is never accepted into the ledger, pending or completed.
C14_FlagOnlyOnReview2 ==
    /\ \A s \in DOMAIN decisions :
          s # "Review2" => ~ decisions[s].requires_additional_review
    /\ \A s \in DOMAIN completed_decisions :
          s # "Review2" => ~ completed_decisions[s].requires_additional_review

\* the positions at which the run loop awaits an activity
ActivityPositions ==
    {"upload", "dispatch1", "dispatch2", "dispatch3", "reject", "finalize"}

\* C16: when an activity fails for good the run ends failed in that step:
\* the step marks no resubmission, issues no further call, appends nothing
\* to the history and leaves submissions, ledger and attempts as they are;
\* a failed run takes no further step; the gate is entered only after
\* record_revision_request returned, following a reviewer's rejection at a
\* closing round; the result is returned only after finalize_review returned.
C16_ExhaustedActivityIsFatal ==
    [][/\ (pc \in ActivityPositions /\ pc' = "failed") =>
            /\ activity # <<>>
            /\ activity' = <<>>
            /\ UNCHANGED <<current_submission, pending_submission, ledger,
                           awaiting_resubmission, attempts, history, runLocals>>
       /\ pc = "failed" => UNCHANGED vars
       /\ (pc' = "gate" /\ pc # "gate") => pc = "reject"
       /\ (pc' = "reject" /\ pc # "reject") => pc \in {"wait1", "wait2", "wait3"}
       /\ (awaiting_resubmission' /\ ~ awaiting_resubmission) => pc' = "reject"
       /\ (pc' = "done" /\ pc # "done") => pc = "finalize"
       /\ (pc \in ActivityPositions) <=> (activity # <<>>)
       /\ HasEntry("Approved")' => pc' = "done"
       /\ (pc = "dispatch1" /\ pc' # pc) => pc' \in {"wait1", "failed"}]_vars

\* the run failed on a Round 1 dispatch when Review1.a had already answered
C16_Witness ==
    /\ pc = "failed"
    /\ current_round_name = Some(<<"Round1", 1>>)
    /\ DOMAIN decisions = {"Review1.a"}
    /\ ~ awaiting_resubmission
    /\ result = None

\* the collected decisions of the stages are approvals for the active version
ApprovedNow(stages) ==
    \A s \in stages :
        /\ s \in DOMAIN completed_decisions'
        /\ completed_decisions'[s].approved
        /\ completed_decisions'[s].submission_version = Get(current_submission).version

\* C17: within an iteration the run loop moves Uploading, RoundOneWaiting,
\* RoundTwoWaiting, optional RoundThreeWaiting, Finalizing, Completed: Round 1
\* is dispatched only when the upload of the iteration returned, Review2 only
\* when Round 1 closed approved, Review3 only when Review2 closed approved
\* asking for the follow-up, finalize only when every executed round
\* approved; a disapproval at a closing round leads to the rejection, the
\* gate and the upload of a new iteration; signals move the run loop nowhere.
C17_StageOrder ==
    [][/\ pc' # pc =>
            /\ pc = "start" => pc' \in {"upload", "failed"}
            /\ pc = "upload" => pc' \in {"dispatch1", "failed"}
            /\ pc = "dispatch1" => pc' \in {"wait1", "failed"}
            /\ pc = "wait1" => pc' \in {"dispatch2", "reject"}
            /\ pc = "dispatch2" => pc' \in {"wait2", "failed"}
            /\ pc = "wait2" => pc' \in {"dispatch3", "finalize", "reject"}
            /\ pc = "dispatch3" => pc' \in {"wait3", "failed"}
            /\ pc = "wait3" => pc' \in {"finalize", "reject"}
            /\ pc = "reject" => pc' \in {"gate", "failed"}
            /\ pc = "gate" => pc' = "upload"
            /\ pc = "finalize" => pc' \in {"done", "failed"}
            /\ pc \notin {"done", "failed"}
       /\ pc' = "upload" =>
            /\ Calls("upload_schema")' # {} /\ Dispatches("Review1.a")' = {}
            /\ pc # "upload" => attempts' = attempts + 1
       /\ (pc' = "dispatch1" /\ pc # pc') =>
            /\ Dispatches("Review1.a")' # {} /\ Dispatches("Review1.b")' # {}
            /\ Last(history').kind = "Uploaded"
            /\ Last(history').version = Get(current_submission).version
       /\ (pc' = "dispatch2" /\ pc # pc') =>
            /\ Dispatches("Review2")' # {}
            /\ ApprovedNow({"Review1.a", "Review1.b"})
       /\ (pc' = "dispatch3" /\ pc # pc') =>
            /\ Dispatches("Review3")' # {}
            /\ ApprovedNow({"Review1.a", "Review1.b", "Review2"})
            /\ completed_decisions'["Review2"].requires_additional_review
       /\ (pc' = "finalize" /\ pc # pc') =>
            /\ Calls("finalize_review")' # {}
            /\ ApprovedNow(DOMAIN completed_decisions')
            /\ {"Review1.a", "Review1.b", "Review2"} \subseteq DOMAIN completed_decisions'
            /\ pc = "wait2" => ~ completed_decisions'["Review2"].requires_additional_review
       /\ (pc' = "reject" /\ pc # pc') =>
            /\ \E s \in RoundStages : ~ completed_decisions'[s].approved
            /\ Calls("record_revision_request")' # {}
       /\ RoundCloses =>
            (pc' = "reject" <=> \E s \in RoundStages : ~ decisions[s].approved)
       /\ pc' # pc =>
            /\ ~ \E d \in ReviewDecision : record_review_decision(d)
            /\ ~ \E sub \in SchemaSubmission : submit_schema(sub)]_vars

\* a second iteration is uploading after Round 3 of the first one rejected
C17_Witness ==
    /\ pc = "upload"
    /\ attempts = 2
    /\ \E i \in 1..Len(history) :
          /\ history[i].kind = "AwaitingResubmission"
          /\ history[i].stage = "Review3Check"

\* C15: a direct call of complete_review returns a CompletionReport, with
\* approved = true and the request's submission and iteration, iff every
\* supplied outcome has approved = true; otherwise it raises a ValueError
\* that names exactly the disapproving reviewers, in order, and there is no
\* report.
C15_CompleteReviewValidates ==
    (call # None /\ returned # None /\ Get(call).activity = "complete_review") =>
        LET request == Get(call).request
            r == Get(returned)
            rejecting == {i \in 1..Len(request.approvals) : ~ request.approvals[i].approved}
        IN  /\ ~ r.raised <=> rejecting = {}
            /\ ~ r.raised =>
                 /\ r.value.approved = TRUE
                 /\ r.value.submission = request.submission
                 /\ r.value.iteration = request.iteration
            /\ r.raised =>
                 /\ DOMAIN r = {"raised", "error", "detail"}
                 /\ r.error = "ValueError"
                 /\ Len(r.detail) = Cardinality(rejecting)
                 /\ \A i \in 1..Len(r.detail) :
                       \E j \in rejecting :
                          /\ r.detail[i] = request.approvals[j].reviewer
                          /\ Cardinality({k \in rejecting : k < j}) = i - 1

\* complete_review raised on an approval by alice followed by a rejection by
\* bob, naming bob
C15_Witness ==
    /\ call # None /\ returned # None
    /\ Get(call).activity = "complete_review"
    /\ Len(Get(call).request.approvals) = 2
    /\ Get(call).request.approvals[1].approved
    /\ ~ Get(call).request.approvals[2].approved
    /\ Get(call).request.approvals[2].reviewer = "bob"
    /\ Get(returned).raised
    /\ Get(returned).detail = <<"bob">>

\* the decisions of the round plan approve the iteration
PlanApproves(plan) ==
    /\ plan.review1_primary.approved
    /\ plan.review1_secondary.approved
    /\ plan.review2.approved
    /\ (plan.requires_review3 /\ ~ plan.review2.skip_follow_up)
          => Get(plan.review3).approved

\* C18: a plan-driven run whose rounds are all consumed without approval
\* ends Exhausted with the error "not approved after N iterations", N the
\* number of rounds: there is no report, complete_review was never invoked,
\* and the history holds one rejected entry per round; a run ends Exhausted
\* only if no round of its plan approves.
C18_ExhaustedPlanIsFatal ==
    /\ plan_pc = "exhausted" =>
         /\ plan_error = Some(<<"NotApproved", Len(rounds)>>)
         /\ final_report = None
         /\ Len(iteration_history) = Len(rounds)
         /\ \A i \in 1..Len(iteration_history) :
               /\ iteration_history[i].iteration = i
               /\ ~ iteration_history[i].approved
         /\ \A j \in 1..Len(rounds) : ~ PlanApproves(rounds[j])
    /\ (\A j \in 1..Len(rounds) : ~ PlanApproves(rounds[j])) =>
         /\ plan_pc \notin {"complete", "done"}
         /\ final_report = None
    /\ final_report # None => plan_pc = "done"

\* a single round in which every stage disapproves ended Exhausted with a
\* history of length 1
C18_Witness ==
    /\ plan_pc = "exhausted"
    /\ Len(rounds) = 1
    /\ ~ rounds[1].review1_primary.approved
    /\ ~ rounds[1].review1_secondary.approved
    /\ ~ rounds[1].review2.approved
    /\ Len(iteration_history) = 1
    /\ final_report = None

\* Round 3 is due in the iteration of the round plan
RoundThreeDue(plan) == plan.requires_review3 /\ ~ plan.review2.skip_follow_up

\* C19: in a plan-driven iteration Round 3 is executed iff the round plan
\* requires it and Review2 (approving) did not waive it; when it is not
\* executed the approvals handed to complete_review hold no Review3 outcome
\* and the iteration's history entry has no final_review.
C19_RoundThreeIffRequiredAndNotWaived ==
    [][/\ (plan_pc = "round2" /\ plan_pc' \notin {"round2", "failed"}) =>
            (plan_pc' = "round3" <=>
                (rounds[iteration].review2.approved /\ RoundThreeDue(rounds[iteration])))
       /\ (plan_pc' = "round3" /\ plan_pc # "round3") => plan_pc = "round2"
       /\ plan_pc' = "complete" =>
            /\ ("Review3" \in DOMAIN outcomes') <=> RoundThreeDue(rounds[iteration'])
            /\ (\E i \in 1..Len(Approvals(outcomes')) :
                   Approvals(outcomes')[i].stage = "Review3")
                  <=> RoundThreeDue(rounds[iteration'])
       /\ \A i \in 1..Len(iteration_history') :
            LET e == iteration_history'[i]
            IN  /\ e.final_review # None =>
                      /\ RoundThreeDue(rounds[e.iteration])
                      /\ Get(e.final_review).stage = "Review3"
                /\ e.approved =>
                      (e.final_review # None <=> RoundThreeDue(rounds[e.iteration]))]_vars

\* an iteration whose plan requires Review3 was approved without it because
\* Review2 waived the follow-up
C19_Witness ==
    /\ plan_pc = "done"
    /\ rounds[iteration].requires_review3
    /\ rounds[iteration].review2.skip_follow_up
    /\ Len(Approvals(outcomes)) = 3
    /\ Last(iteration_history).final_review = None

\* C20: every executed iteration appends exactly one entry to the history,
\* which only grows; a run approved at iteration k returns k entries, the
\* first k-1 rejected and the last approved, and a report whose submission
\* is the one uploaded in iteration k; a rejected entry holds no outcome of
\* a stage after the rejecting round.
C20_OneEntryPerIteration ==
    [][/\ iteration_history' # iteration_history =>
            /\ Len(iteration_history') = Len(iteration_history) + 1
            /\ SubSeq(iteration_history', 1, Len(iteration_history)) = iteration_history
            /\ Last(iteration_history').iteration = iteration
            /\ Len(iteration_history') = iteration
       /\ iteration' # iteration =>
            /\ iteration' = iteration + 1
            /\ Len(iteration_history') = iteration
       /\ plan_pc' \in {"done", "exhausted"} => Len(iteration_history') = iteration'
       /\ plan_pc' = "done" =>
            /\ \A i \in 1..(iteration' - 1) : ~ iteration_history'[i].approved
            /\ iteration_history'[iteration'].approved
            /\ Get(final_report').submission = iteration_history'[iteration'].submission
            /\ Get(final_report').submission.iteration = iteration'
            /\ Get(final_report').iteration = iteration'
            /\ Get(final_report').approved
       /\ \A i \in 1..Len(iteration_history') :
            LET e == iteration_history'[i]
            IN  /\ e.iteration = i
                /\ e.submission.iteration = i
                /\ ~ (e.primary_review.approved /\ e.secondary_review.approved)
                      => (e.second_level_review = None /\ e.final_review = None /\ ~ e.approved)
                /\ (e.second_level_review # None /\ ~ Get(e.second_level_review).approved)
                      => (e.final_review = None /\ ~ e.approved)
                /\ (e.final_review # None /\ ~ Get(e.final_review).approved) => ~ e.approved]_vars

\* the second iteration was approved through Review3 after the first one
\* was rejected at Round 1, where Review2 was not executed
C20_Witness ==
    /\ plan_pc = "done"
    /\ iteration = 2
    /\ Len(iteration_history) = 2
    /\ ~ iteration_history[1].approved
    /\ iteration_history[1].second_level_review = None
    /\ iteration_history[2].final_review # None
    /\ Get(final_report).submission.iteration = 2

\* the number of history entries of a kind
Count(kind) == Cardinality({i \in 1..Len(history) : history[i].kind = kind})

ForActiveVersion(decision) ==
    /\ current_submission # None
    /\ decision.submission_version = Get(current_submission).version
    /\ decision.stage \in _VALID_STAGES

\* index of the entry that opened the running iteration
IterationStart ==
    CHOOSE i \in 1..Len(history) :
        /\ history[i].kind \in {"WorkflowStarted", "ReceivedResubmission"}
        /\ \A j \in (i + 1)..Len(history) :
              history[j].kind \notin {"WorkflowStarted", "ReceivedResubmission"}

\* positions, in the running iteration, of the entries of a kind and stage
EntriesOf(kind, stage) ==
    {i \in IterationStart..Len(history) :
        history[i].kind = kind /\ history[i].stage = stage}

\* C22: a decision for the active version and a known stage is stored under
\* its stage whatever the position of the run loop and whichever round is
\* open, and touches no other stage's pending decision; a pending decision
\* survives every step of the run loop up to the close of its own round or
\* the gate; a round whose stages are all pending can close without a
\* further delivery; and the outcome of a closing round (Round 1 verdict,
\* rejection, Round 3 or completion, approvers) is a function of the
\* decisions pending for its stages.  Hence with one decision per stage the
\* outcome does not depend on the order of delivery among the decisions or
\* relative to the dispatches.
C22_ArrivalOrderIrrelevant ==
    [][/\ pc' = pc => \A decision \in ReviewDecision :
            (ForActiveVersion(decision) /\ record_review_decision(decision)) =>
                /\ decisions' = DictSet(decisions, decision.stage, decision)
                /\ \A s \in (DOMAIN decisions) \ {decision.stage} :
                      decisions'[s] = decisions[s]
                /\ UNCHANGED <<completed_decisions, roundVars, runLocals,
                               awaiting_resubmission, activity>>
       /\ (pc' # pc /\ ~ GateStep) =>
            \A s \in (DOMAIN decisions) \ (IF RoundCloses THEN RoundStages ELSE {}) :
                /\ s \in DOMAIN decisions'
                /\ decisions'[s] = decisions[s]
       /\ (pc \in {"wait1", "wait2", "wait3"} /\ RoundStages \subseteq DOMAIN decisions)
            => ENABLED (CloseRoundOne \/ CloseRoundTwo \/ CloseRoundThree)
       /\ (RoundCloses /\ pc = "wait1") =>
            pc' = IF decisions["Review1.a"].approved /\ decisions["Review1.b"].approved
                  THEN "dispatch2" ELSE "reject"
       /\ (RoundCloses /\ pc = "wait2") =>
            pc' = IF ~ decisions["Review2"].approved THEN "reject"
                  ELSE IF decisions["Review2"].requires_additional_review
                  THEN "dispatch3" ELSE "finalize"
       /\ (RoundCloses /\ pc = "wait3") =>
            pc' = IF decisions["Review3"].approved THEN "finalize" ELSE "reject"
       /\ (RoundCloses /\ pc' = "finalize") =>
            /\ \A s \in RoundStages :
                  Get(result').approvers[s] = decisions[s].reviewer
            /\ \A s \in DOMAIN completed_decisions :
                  Get(result').approvers[s] = completed_decisions[s].reviewer
            /\ DOMAIN Get(result').approvers =
                  RoundStages \cup DOMAIN completed_decisions]_vars

\* an iteration completed on one decision per stage, with the Review2
\* decision delivered before the upload returned and Review1.b delivered
\* before Review1.a
C22_Witness ==
    /\ pc = "finalize"
    /\ \A s \in {"Review1.a", "Review1.b", "Review2"} :
          Cardinality(EntriesOf("RecordedDecision", s)) = 1
    /\ \E i \in EntriesOf("RecordedDecision", "Review2") :
          \E u \in EntriesOf("Uploaded", "") : i < u
    /\ \E i \in EntriesOf("RecordedDecision", "Review1.b") :
          \E j \in EntriesOf("RecordedDecision", "Review1.a") : i < j
    /\ DOMAIN Get(result).approvers = {"Review1.a", "Review1.b", "Review2"}

\* the keyword arguments break the rule "review3 is given iff required"
IllFormed(args) ==
    \/ args.requires_review3 /\ args.review3 = None
    \/ ~ args.requires_review3 /\ args.review3 # None

\* C23: building the plan-driven input raises ValueError iff some round has
\* requires_review3 without a review3, or a review3 without requires_review3,
\* or there is no round at all; otherwise the input holds the rounds as
\* given.  A raise is no rejection: no run is started from such input (no
\* upload, no review, no history entry, no "not approved" outcome), and a
\* run that was started was started from a well-formed, non-empty input.
C23_WellFormedInput ==
    call # None =>
        LET args == Get(call).request
            bad == args = <<>> \/ \E i \in 1..Len(args) : IllFormed(args[i])
        IN  /\ returned # None =>
                 /\ Get(returned).raised <=> bad
                 /\ Get(returned).raised =>
                       /\ Get(returned).error = "ValueError"
                       /\ DOMAIN Get(returned) = {"raised", "error", "detail"}
                 /\ ~ Get(returned).raised => Get(returned).value = args
            /\ (returned = None \/ bad) => PlanIdle
            /\ plan_pc # "idle" =>
                 /\ rounds = args
                 /\ rounds # <<>>
                 /\ \A i \in 1..Len(rounds) :
                       rounds[i].requires_review3 <=> rounds[i].review3 # None

\* a round that supplies a review3 without requiring it made the
\* construction raise, after a well-formed first round; no run exists
C23_Witness ==
    /\ call # None /\ returned # None
    /\ Len(Get(call).request) = 2
    /\ ~ IllFormed(Get(call).request[1])
    /\ ~ Get(call).request[2].requires_review3
    /\ Get(call).request[2].review3 # None
    /\ Get(returned).raised
    /\ Get(returned).detail =
          <<"review3 decision cannot be provided when requires_review3 is False">>
    /\ PlanIdle

\* the decision that counts for a stage: the one collected, else the pending one
Effective(stage) ==
    IF stage \in DOMAIN completed_decisions
    THEN completed_decisions[stage] ELSE decisions[stage]

InLedger(stage) == stage \in (DOMAIN completed_decisions) \cup (DOMAIN decisions)

\* the ledger of the running iteration holds an approval for Review1.a,
\* Review1.b and Review2, and for Review3 when the Review2 decision asks for
\* the follow-up, and holds no disapproval, pending or collected
ApprovalsDelivered ==
    /\ current_submission # None
    /\ pc \notin {"done", "failed"}
    /\ \A s \in {"Review1.a", "Review1.b", "Review2"} : InLedger(s)
    /\ Effective("Review2").requires_additional_review => InLedger("Review3")
    /\ \A s \in DOMAIN decisions : decisions[s].approved
    /\ \A s \in DOMAIN completed_decisions : completed_decisions[s].approved

Completed == pc = "done" /\ result # None

\* a candidate newer than the rejected submission is pending at the gate of
\* iteration n, which is not the last iteration the model runs
NewerPendingAt(n) ==
    /\ awaiting_resubmission
    /\ pc \in {"reject", "gate"}
    /\ pending_submission # None
    /\ Get(pending_submission).version > Get(current_submission).version
    /\ attempts = n

\* C24: with activities that succeed and a weakly fair run loop, once the
\* ledger of an iteration holds the approvals of every mandatory stage the
\* run reaches Completed with a record, unless a later delivery upsets that
\* (a disapproval, or a Review2 decision asking for a Review3 not delivered);
\* and once a candidate with a greater version is pending while the run
\* awaits a resubmission, the next iteration starts.
C24_Liveness ==
    /\ ApprovalsDelivered ~> (Completed \/ ~ ApprovalsDelivered)
    /\ \A n \in 1..(MaxAttempts - 1) :
          NewerPendingAt(n) ~> (attempts = n + 1 /\ pc = "upload")

\* in the second iteration the approvals of Review1.a, Review1.b and Review2
\* are in the ledger before Round 1 closed
C24_Witness ==
    /\ ApprovalsDelivered
    /\ attempts = 2
    /\ pc = "wait1"
    /\ DOMAIN decisions = {"Review1.a", "Review1.b", "Review2"}

\* C25: every decision in the ledger, pending or completed, carries the
\* version of the active submission, and without an active submission the
\* ledger is empty; the Review2 decision Round 3 builds on and the decisions
\* behind the approvers of the result carry the active version as well.
C25_LedgerAtActiveVersion ==
    /\ current_submission = None =>
          (decisions = EmptyDict /\ completed_decisions = EmptyDict)
    /\ \A s \in DOMAIN decisions :
          decisions[s].submission_version = Get(current_submission).version
    /\ \A s \in DOMAIN completed_decisions :
          completed_decisions[s].submission_version = Get(current_submission).version
    /\ pc \in {"dispatch3", "wait3"} =>
          /\ round_two_decision = Some(completed_decisions["Review2"])
          /\ Get(round_two_decision).submission_version
                = Get(current_submission).version
    /\ pc \in {"finalize", "done"} =>
          \A s \in DOMAIN Get(result).approvers :
              /\ completed_decisions[s].submission_version
                    = Get(current_submission).version
              /\ Get(result).approvers[s] = completed_decisions[s].reviewer

\* the second iteration, of a newer version, has collected Round 1 and holds
\* a pending Review2 decision, after the first iteration collected decisions
C25_Witness ==
    /\ attempts = 2
    /\ Get(current_submission).version > 1
    /\ DOMAIN completed_decisions = {"Review1.a", "Review1.b"}
    /\ "Review2" \in DOMAIN decisions
    /\ Count("CollectedRoundOne") = 2

\* C26: whenever a pending submission exists next to an active one, its
\* version is strictly greater than the active version; a candidate that
\* submit_schema accepts replaces the pending one, whatever their versions,
\* and the gate installs the pending submission it finds, which is the most
\* recently accepted candidate.
C26_PendingIsNewer ==
    [][/\ (pending_submission' # None /\ current_submission' # None) =>
            Get(pending_submission').version > Get(current_submission').version
       /\ pc' = pc => \A submission \in SchemaSubmission :
            (submit_schema(submission) /\ ~ Outdated(submission))
                => pending_submission' = Some(submission)
       /\ pending_submission' # pending_submission =>
            \/ GateStep /\ pending_submission' = None
            \/ \E submission \in SchemaSubmission :
                  /\ ~ Outdated(submission)
                  /\ pending_submission' = Some(submission)
       /\ GateStep => current_submission' = pending_submission]_vars

\* the versions named by the activity calls in flight
CallVersions == {activity[i].version : i \in 1..Len(activity)}

\* a candidate is pending next to the submission of the running iteration
CandidateWaits ==
    /\ current_submission # None
    /\ pending_submission # None
    /\ pc \notin {"reject", "gate", "done", "failed"}

IterationPositions ==
    {"upload", "dispatch1", "wait1", "dispatch2", "wait2", "dispatch3",
     "wait3", "reject", "gate", "finalize"}

\* C28: under every interleaving of the signals with the run loop, what the
\* run loop relies on holds.  The active submission is present at every
\* position inside an iteration and is never unset.  A signal never removes
\* a pending decision, never empties the pending submission and never
\* touches the completed decisions or the expected stages, so a
\* wait_condition that holds keeps holding until the run loop resumes.
\* Every stage popped when a round closes is pending, the Review2 decision
\* is at hand when Round 3 closes, Review1.a and Review1.b are completed
\* when the approvers are built, and the gate finds a pending submission.
\* Hence the run fails only on its input check or on an activity.
C28_RunLoopAssumptions ==
    [][/\ pc' \in IterationPositions \cup {"done"} => current_submission' # None
       /\ current_submission # None => current_submission' # None
       /\ pc' = pc =>
            /\ DOMAIN decisions \subseteq DOMAIN decisions'
            /\ pending_submission # None => pending_submission' # None
            /\ UNCHANGED <<completed_decisions, expected_stages, runLocals>>
       /\ RoundCloses =>
            /\ Range(expected_stages) = RoundStages
            /\ \A i \in 1..Len(expected_stages) : expected_stages[i] \in DOMAIN decisions
            /\ pc = "wait3" => round_two_decision # None
       /\ (result = None /\ result' # None) =>
            /\ {"Review1.a", "Review1.b", "Review2"} \subseteq DOMAIN completed_decisions'
            /\ pc = "wait3" => "Review3" \in DOMAIN completed_decisions'
       /\ GateStep => pending_submission # None
       /\ (pc' = "failed" /\ pc # "failed") =>
            \/ pc = "start" /\ Len(config.stage_one_reviewers) # 2
            \/ pc \in ActivityPositions /\ activity # <<>>]_vars

\* Round 3 is about to close on a pending Review3 decision while a decision
\* delivered again for a stage already collected is pending next to it
C28_Witness ==
    /\ pc = "wait3"
    /\ "Review3" \in DOMAIN decisions
    /\ DOMAIN decisions \cap {"Review1.a", "Review1.b", "Review2"} # {}
    /\ {"Review1.a", "Review1.b", "Review2"} \subseteq DOMAIN completed_decisions

====
